---------------------------- MODULE Spec2Model ----------------------------
(***************************************************************************)
(* A model of src/src/utilities.ts (static-images): the resolver           *)
(* deviceWidths, which picks the width of an img "sizes" rule for a device *)
(* and scales it by the device's pixel densities, widthsFromSizes over the *)
(* device catalog, the similarity filter filterSizes, and the parser       *)
(* parseSizes of a "sizes" string.                                         *)
(*                                                                         *)
(* Representation.                                                         *)
(*  - A JavaScript string that the code parses (a condition value, a width *)
(*    token) is a sequence of one-character strings, so that cssValue is   *)
(*    a real parse of it.  A string the code only compares (mediaFeature)  *)
(*    is a TLA+ string.                                                    *)
(*  - A JavaScript number is an exact rational [n, d] with d > 0; NaN is   *)
(*    [n |-> 0, d |-> 0] and +Infinity does not occur in the resolver.     *)
(*    Floating-point rounding of the products is not modelled.             *)
(*  - A Set<number> is a duplicate-free sequence in insertion order.       *)
(***************************************************************************)
EXTENDS Integers, Sequences, FiniteSets, TLC

VARIABLES
    sizes,       \* deviceWidths: argument `sizes`, a sequence of Size records
    device,      \* deviceWidths: argument `device`
    imgWidth,    \* deviceWidths: local `imgWidth` when the whichSize loop ended
    needWidths,  \* deviceWidths: the returned Set<number>, in insertion order
    thrown,      \* deviceWidths: the exception the call ended with, if any
    entry,       \* the function called: "deviceWidths" | "widthsFromSizes"
    widths,      \* widthsFromSizes: the array returned
    rpc,         \* resolver calls: "idle" | "returned" | "threw"
    list,        \* filterSizes: argument `list`
    isDims,      \* filterSizes: whether the elements of `list` are Dimension objects
    factor,      \* filterSizes: argument `factor`
    sorted,      \* filterSizes: local `sorted`
    i,           \* filterSizes: loop variable i (0-based)
    j,           \* filterSizes: loop variable j (0-based)
    filtered,    \* filterSizes: local `filtered`, the value returned
    fpc,         \* filterSizes: "idle" | "loop" | "returned"
    prev,        \* the previous filterSizes call of the caller, if any
    sizesQueryString,  \* parseSizes: argument `sizesQueryString`
    parsedSizes,       \* parseSizes: the Size[] returned
    ppc                \* parseSizes: "idle" | "returned"

rvars == <<sizes, device, imgWidth, needWidths, thrown, entry, widths, rpc>>
fvars == <<list, isDims, factor, sorted, i, j, filtered, fpc, prev>>
pvars == <<sizesQueryString, parsedSizes, ppc>>
vars == <<sizes, device, imgWidth, needWidths, thrown, entry, widths, rpc,
          list, isDims, factor, sorted, i, j, filtered, fpc, prev,
          sizesQueryString, parsedSizes, ppc>>

----------------------------------------------------------------------------
(* Numbers *)

\* the element of a one-element set.  In The({e(v) : v \in {x}}) the bound v
\* names the value of x, as a `let` of the code does.
The(S) == CHOOSE x \in S : TRUE

NaN == [n |-> 0, d |-> 0]

IsNaN(x) == x.d = 0

Num(k) == [n |-> k, d |-> 1]

\* x * y, NaN if either is NaN
Mul(x, y) == IF IsNaN(x) \/ IsNaN(y) THEN NaN ELSE [n |-> x.n * y.n, d |-> x.d * y.d]

\* x / k for an integer k > 0
DivInt(x, k) == IF IsNaN(x) THEN NaN ELSE [n |-> x.n, d |-> x.d * k]

\* k >= x and k <= x for an integer k; every comparison with NaN is false
IntGe(k, x) == ~IsNaN(x) /\ k * x.d >= x.n

IntLe(k, x) == ~IsNaN(x) /\ k * x.d <= x.n

\* Math.floor in the place of Math.ceil
MathCeil_Floor(x) == IF IsNaN(x) THEN 0 - 1 ELSE x.n \div x.d

\* Math.ceil of a non-negative number; Math.ceil(NaN) is NaN, written -1
MathCeil(x) == IF IsNaN(x) THEN 0 - 1 ELSE (x.n + x.d - 1) \div x.d

----------------------------------------------------------------------------
(* Strings as character sequences *)

Digits == <<"0", "1", "2", "3", "4", "5", "6", "7", "8", "9">>

IsDigit(c) == \E k \in 1..10 : Digits[k] = c

DigitVal(c) == (CHOOSE k \in 1..10 : Digits[k] = c) - 1

\* the character class [\d.]
IsDigitOrDot(c) == IsDigit(c) \/ c = "."

RECURSIVE SkipToNumber(_)
\* the text from the leftmost character of class [\d.] on; <<>> if there is none
SkipToNumber(s) ==
    IF s = <<>> THEN <<>>
    ELSE IF IsDigitOrDot(Head(s)) THEN s
    ELSE SkipToNumber(Tail(s))

RECURSIVE NumberRun(_)
\* the greedy match of [\d.]+ at the start of s
NumberRun(s) ==
    IF s = <<>> \/ ~IsDigitOrDot(Head(s)) THEN <<>>
    ELSE <<Head(s)>> \o NumberRun(Tail(s))

RECURSIVE UnitRun(_)
\* the greedy match of \D* at the start of s
UnitRun(s) ==
    IF s = <<>> \/ IsDigit(Head(s)) THEN <<>>
    ELSE <<Head(s)>> \o UnitRun(Tail(s))

RECURSIVE ScanNumber(_, _, _, _, _)
\* Number(s) for s made of digits and dots: acc/den so far, dot seen, digits seen
ScanNumber(s, acc, den, dot, any) ==
    IF s = <<>> THEN (IF any THEN [n |-> acc, d |-> den] ELSE NaN)
    ELSE IF Head(s) = "."
         THEN (IF dot THEN NaN ELSE ScanNumber(Tail(s), acc, den, TRUE, any))
         ELSE ScanNumber(Tail(s), acc * 10 + DigitVal(Head(s)),
                         IF dot THEN den * 10 ELSE den, dot, TRUE)

\* Number(s): s is a run of [\d.], or the whole text when the regex found none
\* (then "" is 0 and any other text without a digit is NaN)
ToNumber(s) ==
    IF s = <<>> THEN Num(0)
    ELSE IF \A k \in 1..Len(s) : IsDigitOrDot(s[k]) THEN ScanNumber(s, 0, 1, FALSE, FALSE)
    ELSE NaN

cssValue(v) ==
    The({ IF rest = <<>>
          THEN [value |-> ToNumber(v), unit |-> <<>>]
          ELSE The({ [value |-> ToNumber(run),
                      unit |-> UnitRun(SubSeq(rest, Len(run) + 1, Len(rest)))] :
                         run \in {NumberRun(rest)} }) :
              rest \in {SkipToNumber(v)} })

----------------------------------------------------------------------------
(* deviceWidths *)

px == <<"p", "x">>

vw == <<"v", "w">>

\* `let imgWidth: string` before the first assignment
Undefined == <<"undefined">>

NoError == [kind |-> "none", unit |-> <<>>]

\* new Error(`Invalid query unit ${unit}: only px is supported`)
InvalidQueryUnit(unit) == [kind |-> "Invalid query unit", unit |-> unit]

\* cssValue(undefined): v.match on undefined
TypeError == [kind |-> "TypeError", unit |-> <<>>]

\* the `match` expression with the boundaries left out: > for >=, < for <=
ConditionMatch_Strict(mediaFeature, value, dev) ==
    \/ mediaFeature = "min-width" /\ IntGe(dev.w, value) /\ ~IntLe(dev.w, value)
    \/ mediaFeature = "max-width" /\ IntLe(dev.w, value) /\ ~IntGe(dev.w, value)
    \/ mediaFeature = "min-height" /\ IntGe(dev.h, value) /\ ~IntLe(dev.h, value)
    \/ mediaFeature = "max-height" /\ IntLe(dev.h, value) /\ ~IntGe(dev.h, value)

\* the `match` expression of one condition whose value has been parsed
ConditionMatch(mediaFeature, value, dev) ==
    \/ mediaFeature = "min-width" /\ IntGe(dev.w, value)
    \/ mediaFeature = "max-width" /\ IntLe(dev.w, value)
    \/ mediaFeature = "min-height" /\ IntGe(dev.h, value)
    \/ mediaFeature = "max-height" /\ IntLe(dev.h, value)

RECURSIVE ScanConditions(_, _, _)
\* the inner loop over `conditions` from index k: how the iteration of the
\* whichSize loop ends ("break", "continue" or "throw")
ScanConditions(conditions, k, dev) ==
    IF k > Len(conditions) THEN [kind |-> "break", unit |-> <<>>]
    ELSE The({ IF cv.unit # px THEN [kind |-> "throw", unit |-> cv.unit]
               ELSE IF ~ConditionMatch(conditions[k].mediaFeature, cv.value, dev)
                    THEN [kind |-> "continue", unit |-> <<>>]
                    ELSE ScanConditions(conditions, k + 1, dev) :
                   cv \in {cssValue(conditions[k].value)} })

RECURSIVE WhichSize(_, _, _, _)
\* the whichSize loop from rule k on, `last` being imgWidth so far
WhichSize(szs, k, dev, last) ==
    IF k > Len(szs) THEN [imgWidth |-> last, thrown |-> NoError]
    ELSE The({ CASE r.kind = "throw" ->
                      [imgWidth |-> szs[k].width, thrown |-> InvalidQueryUnit(r.unit)]
                 [] r.kind = "break" ->
                      [imgWidth |-> szs[k].width, thrown |-> NoError]
                 [] r.kind = "continue" ->
                      WhichSize(szs, k + 1, dev, szs[k].width) :
                   r \in {ScanConditions(szs[k].conditions, 1, dev)} })

\* the body of the dppx.forEach callback: the width added to needWidths
ScaledWidth(width, dev, dppx) ==
    The({ MathCeil(Mul(IF cv.unit = vw
                       THEN DivInt(Mul(Num(dev.w), cv.value), 100)
                       ELSE cv.value,
                       dppx)) :
              cv \in {cssValue(width)} })

\* Set.prototype.add on a set kept in insertion order
SetAdd(set, x) ==
    IF \E k \in 1..Len(set) : set[k] = x THEN set ELSE Append(set, x)

RECURSIVE ForEachDppx(_, _, _, _)
\* device.dppx.forEach from index k with needWidths = acc
ForEachDppx(width, dev, k, acc) ==
    IF k > Len(dev.dppx) THEN acc
    ELSE The({ ForEachDppx(width, dev, k + 1, SetAdd(acc, scaledWidth)) :
                   scaledWidth \in {ScaledWidth(width, dev, dev.dppx[k])} })

\* deviceWidths(sizes, device): the local imgWidth, the returned set, the error
deviceWidths(szs, dev) ==
    The({ IF sel.thrown # NoError
          THEN [imgWidth |-> sel.imgWidth, needWidths |-> <<>>, thrown |-> sel.thrown]
          ELSE IF sel.imgWidth = Undefined /\ dev.dppx # <<>>
               THEN [imgWidth |-> Undefined, needWidths |-> <<>>, thrown |-> TypeError]
               ELSE [imgWidth |-> sel.imgWidth,
                     needWidths |-> ForEachDppx(sel.imgWidth, dev, 1, <<>>),
                     thrown |-> NoError] :
              sel \in {WhichSize(szs, 1, dev, Undefined)} })

----------------------------------------------------------------------------
(* Bounds and inputs of the resolver *)

\* at most this many rules in a rule list
MaxRules == 2

\* at most this many conditions in a rule list, over all its rules
MaxConds == 2

\* at most this many densities in a device
MaxDppx == 2

\* the largest device width and height
MaxDim == 6

em == <<"e", "m">>

Units == {px, vw, em, <<"%">>, <<>>}

\* decimal literals with the number each denotes
NumLits ==
    { [str |-> <<"1">>, n |-> 1, d |-> 1],
      [str |-> <<"3">>, n |-> 3, d |-> 1],
      [str |-> <<"2", ".", "5">>, n |-> 5, d |-> 2],
      [str |-> <<"5", "0">>, n |-> 50, d |-> 1] }

\* width tokens: a literal and a unit, and one token without a number
WidthTokens == {l.str \o u : l \in NumLits, u \in Units} \cup {<<"a", "u", "t", "o">>}

Features == {"min-width", "max-width", "min-height", "max-height"}

\* conditions at the breakpoint 5px, and one in a unit the code rejects
Conditions ==
    {[mediaFeature |-> f, value |-> <<"5">> \o px] : f \in Features}
        \cup {[mediaFeature |-> "min-width", value |-> <<"5">> \o em]}

RECURSIVE RuleLists(_, _, _)
\* the rule lists of at most r rules and at most c conditions in all, widths in W
RuleLists(r, c, W) ==
    IF r = 0 THEN {<<>>}
    ELSE {<<>>} \cup
         UNION { { <<[conditions |-> cs, width |-> w]>> \o rest :
                       cs \in [1..k -> Conditions], w \in W,
                       rest \in RuleLists(r - 1, c - k, W) } : k \in 0..c }

Dims == 4..MaxDim

DppxValues == {[n |-> 1, d |-> 1], [n |-> 3, d |-> 2], [n |-> 2, d |-> 1]}

\* the density lists of a device: each density once
DppxLists ==
    UNION { {ds \in [1..k -> DppxValues] : \A a, b \in 1..k : a # b => ds[a] # ds[b]} :
                k \in 0..MaxDppx }

\* rule lists that vary the conditions, with two widths to tell the rules apart
SelectionSizes == RuleLists(MaxRules, MaxConds, {<<"3">> \o px, <<"5", "0">> \o vw})

\* rule lists that vary the width token: at most one rule, unconditional
ScalingSizes == RuleLists(1, 0, WidthTokens)

\* parseSizes is not part of the behaviours of the other functions
ParserUnused ==
    /\ sizesQueryString = <<>>
    /\ parsedSizes = <<>>
    /\ ppc = "idle"

\* the variables of filterSizes while only the resolver runs
FilterUnused ==
    /\ list = <<>>
    /\ isDims = TRUE
    /\ factor = Num(1)
    /\ sorted = <<>>
    /\ i = 0
    /\ j = 0
    /\ filtered = <<>>
    /\ fpc = "idle"
    /\ prev = <<>>

----------------------------------------------------------------------------
(* filterSizes *)

\* at most this many candidates in a list
MaxLen == 3

\* the largest flat width
MaxWidth == 5

\* the largest side of a Dimension
MaxSide == 2

\* how far j may run past the end of the list
MaxSpin == 2

\* isDimension(x) for an element x of a list whose elements are of that kind
isDimension(x, dims) == dims

\* the sort key: the comparators order by b - a, or by b.w * b.h - a.w * a.h
SortKey(x, dims) == IF dims THEN x.w * x.h ELSE x

RECURSIVE InsertDesc(_, _, _)
\* x put into the descending sequence s after every element that is not smaller
InsertDesc(x, s, dims) ==
    IF s = <<>> THEN <<x>>
    ELSE IF SortKey(Head(s), dims) >= SortKey(x, dims)
         THEN <<Head(s)>> \o InsertDesc(x, Tail(s), dims)
         ELSE <<x>> \o s

RECURSIVE SortDesc(_, _)
\* [...list].sort(...): from large to small, equal keys in their order in list
SortDesc(l, dims) ==
    IF l = <<>> THEN <<>>
    ELSE InsertDesc(l[Len(l)], SortDesc(SubSeq(l, 1, Len(l) - 1), dims), dims)

\* sorted[k] is not undefined, for a 0-based k
Defined(srt, k) == k < Len(srt)

\* the truth value of sorted[k] in `a && !b`: undefined and 0 are false, an
\* object is true
Truthy(srt, k, dims) == Defined(srt, k) /\ (dims \/ srt[k + 1] # 0)

\* the numerators and the denominators of scale1 and scale2
ScaleW(x, dims) == IF isDimension(x, dims) THEN x.w ELSE x

ScaleH(x, dims) == IF isDimension(x, dims) THEN x.h ELSE x

\* scale1 * scale2 > factor in the place of <
ScaleBelow_Flipped(a, b, f, dims) ==
    /\ ScaleW(a, dims) # 0
    /\ ScaleH(a, dims) # 0
    /\ ScaleW(b, dims) * ScaleH(b, dims) * f.d > f.n * ScaleW(a, dims) * ScaleH(a, dims)

\* scale1 * scale2 < factor for elements a and b.  A division by zero gives NaN
\* or Infinity, and neither is below the factor; otherwise the quotients of
\* non-negative numbers are compared exactly.
ScaleBelow(a, b, f, dims) ==
    /\ ScaleW(a, dims) # 0
    /\ ScaleH(a, dims) # 0
    /\ ScaleW(b, dims) * ScaleH(b, dims) * f.d < f.n * ScaleW(a, dims) * ScaleH(a, dims)

\* one iteration that forgets the reference when the probe is past the end
LoopBody_DropLast(srt, f, dims, st) ==
    IF Truthy(srt, st.i, dims) /\ ~Truthy(srt, st.j, dims)
    THEN [i |-> st.i, j |-> st.j, filtered |-> st.filtered, break |-> TRUE]
    ELSE IF Defined(srt, st.j) /\ ScaleBelow(srt[st.i + 1], srt[st.j + 1], f, dims)
         THEN [i |-> st.j, j |-> st.j + 1, filtered |-> Append(st.filtered, srt[st.i + 1]),
               break |-> FALSE]
         ELSE [i |-> st.i, j |-> st.j + 1, filtered |-> st.filtered, break |-> FALSE]

\* one iteration of the for loop, entered with i < sorted.length, a = sorted[i]
\* and b = sorted[j]; with b undefined the scales are NaN, not below the factor
LoopBody(srt, f, dims, st) ==
    IF Truthy(srt, st.i, dims) /\ ~Truthy(srt, st.j, dims)
    THEN [i |-> st.i, j |-> st.j, filtered |-> Append(st.filtered, srt[st.i + 1]),
          break |-> TRUE]
    ELSE IF Defined(srt, st.j) /\ ScaleBelow(srt[st.i + 1], srt[st.j + 1], f, dims)
         THEN [i |-> st.j, j |-> st.j + 1, filtered |-> Append(st.filtered, srt[st.i + 1]),
               break |-> FALSE]
         ELSE [i |-> st.i, j |-> st.j + 1, filtered |-> st.filtered, break |-> FALSE]

\* the factors of the calls; 0.8 is the default
Factors == {[n |-> 1, d |-> 4], [n |-> 1, d |-> 2], [n |-> 4, d |-> 5], [n |-> 1, d |-> 1]}

\* f < g for two factors
FactorLess(f, g) == f.n * g.d < g.n * f.d

WidthLists == UNION {[1..k -> 0..MaxWidth] : k \in 1..MaxLen}

DimensionLists == UNION {[1..k -> [w : 1..MaxSide, h : 1..MaxSide]] : k \in 0..MaxLen}

\* the variables of the resolver while only filterSizes runs
ResolverUnused ==
    /\ sizes = <<>>
    /\ device = [w |-> 4, h |-> 4, dppx |-> <<>>, flip |-> FALSE]
    /\ imgWidth = Undefined
    /\ needWidths = <<>>
    /\ thrown = NoError
    /\ entry = "deviceWidths"
    /\ widths = <<>>
    /\ rpc = "idle"

\* before the first call: the arguments are chosen
FilterIdle ==
    /\ \/ list \in WidthLists /\ isDims = FALSE
       \/ list \in DimensionLists /\ isDims = TRUE
    /\ factor \in Factors
    /\ sorted = <<>>
    /\ i = 0
    /\ j = 0
    /\ filtered = <<>>
    /\ fpc = "idle"
    /\ prev = <<>>

\* filterSizes(list, factor) is entered: the copy is sorted, the loop set up
FilterCall ==
    /\ fpc = "idle"
    /\ sorted' = SortDesc(list, isDims)
    /\ filtered' = <<>>
    /\ i' = 0
    /\ j' = 1
    /\ fpc' = "loop"
    /\ UNCHANGED <<list, isDims, factor, prev>>
    /\ UNCHANGED rvars
    /\ UNCHANGED pvars

\* one iteration of the loop; a break leaves the loop and returns filtered.
\* Past the end sorted[j] is undefined whatever j is, so j is counted up to
\* MaxSpin past the end and the iteration after that counts from the end again:
\* a loop that never ends is a cycle of iterations.
FilterIter ==
    /\ fpc = "loop"
    /\ i < Len(sorted)
    /\ \E st \in {LoopBody(sorted, factor, isDims, [i |-> i, j |-> j, filtered |-> filtered])} :
          /\ i' = st.i
          /\ j' = IF st.j > Len(sorted) + MaxSpin THEN Len(sorted) ELSE st.j
          /\ filtered' = st.filtered
          /\ fpc' = IF st.break THEN "returned" ELSE "loop"
    /\ UNCHANGED <<list, isDims, factor, sorted, prev>>
    /\ UNCHANGED rvars
    /\ UNCHANGED pvars

\* the loop condition i < sorted.length fails: filtered is returned
FilterExit ==
    /\ fpc = "loop"
    /\ i >= Len(sorted)
    /\ fpc' = "returned"
    /\ UNCHANGED <<list, isDims, factor, sorted, i, j, filtered, prev>>
    /\ UNCHANGED rvars
    /\ UNCHANGED pvars

\* the caller passes the result to filterSizes again, with the same factor
FilterAgain ==
    /\ fpc = "returned"
    /\ prev = <<>>
    /\ prev' = <<[list |-> list, factor |-> factor, out |-> filtered, again |-> TRUE]>>
    /\ list' = filtered
    /\ sorted' = <<>>
    /\ filtered' = <<>>
    /\ i' = 0
    /\ j' = 0
    /\ fpc' = "idle"
    /\ UNCHANGED <<isDims, factor>>
    /\ UNCHANGED rvars
    /\ UNCHANGED pvars

\* the caller filters the same list with a larger factor
FilterLooser ==
    /\ fpc = "returned"
    /\ prev = <<>>
    /\ \E g \in Factors :
          /\ FactorLess(factor, g)
          /\ factor' = g
    /\ prev' = <<[list |-> list, factor |-> factor, out |-> filtered, again |-> FALSE]>>
    /\ sorted' = <<>>
    /\ filtered' = <<>>
    /\ i' = 0
    /\ j' = 0
    /\ fpc' = "idle"
    /\ UNCHANGED <<list, isDims>>
    /\ UNCHANGED rvars
    /\ UNCHANGED pvars

InitFilter == ResolverUnused /\ FilterIdle /\ ParserUnused

NextFilter == FilterCall \/ FilterIter \/ FilterExit \/ FilterAgain \/ FilterLooser

SpecFilter == InitFilter /\ [][NextFilter]_vars

\* a call that was entered goes on running: the loop takes its next iteration
\* and, when its condition fails, the function returns
SpecFilterRuns ==
    InitFilter /\ [][NextFilter]_vars /\ WF_vars(FilterIter) /\ WF_vars(FilterExit)

----------------------------------------------------------------------------
(* filterSizes as a function, and widthsFromSizes *)

RECURSIVE FilterLoop(_, _, _, _)
\* the for loop of filterSizes run to its end: the array returned, or no return
\* when the loop goes on for ever (the reference is a 0 and the probe undefined)
FilterLoop(srt, f, dims, st) ==
    IF st.break \/ st.i >= Len(srt) THEN [returns |-> TRUE, out |-> st.filtered]
    ELSE IF ~Defined(srt, st.j) /\ ~Truthy(srt, st.i, dims)
         THEN [returns |-> FALSE, out |-> <<>>]
         ELSE The({ FilterLoop(srt, f, dims, next) : next \in {LoopBody(srt, f, dims, st)} })

\* filterSizes(list, factor)
filterSizes(l, f, dims) ==
    The({ FilterLoop(srt, f, dims, [i |-> 0, j |-> 1, filtered |-> <<>>, break |-> FALSE]) :
              srt \in {SortDesc(l, dims)} })

\* `factor: number = 0.8`
DefaultFactor == [n |-> 4, d |-> 5]

\* the device catalog `devices`, a stand-in for default-devices.json
Catalog ==
    << [w |-> 4, h |-> 6, dppx |-> <<Num(2), Num(1)>>, flip |-> TRUE],
       [w |-> 6, h |-> 4, dppx |-> <<Num(1)>>, flip |-> FALSE],
       [w |-> 5, h |-> 5, dppx |-> <<[n |-> 3, d |-> 2]>>, flip |-> FALSE] >>

RECURSIVE AddAll(_, _, _)
\* deviceWidths(...).forEach(n => all.add(n)) from index k
AddAll(all, ws, k) ==
    IF k > Len(ws) THEN all ELSE AddAll(SetAdd(all, ws[k]), ws, k + 1)

RECURSIVE ReduceDevices(_, _, _, _)
\* devices.reduce(...) from device k with the accumulator `all`; an exception of
\* deviceWidths ends it
ReduceDevices(szs, k, all, last) ==
    IF k > Len(Catalog) THEN [all |-> all, thrown |-> NoError, last |-> last]
    ELSE The({ IF r.thrown # NoError
               THEN [all |-> <<>>, thrown |-> r.thrown, last |-> r]
               ELSE The({ ReduceDevices(szs, k + 1, sum, r) :
                              sum \in {AddAll(all, r.needWidths, 1)} }) :
                   r \in {deviceWidths(szs, Catalog[k])} })

\* widthsFromSizes, from the parsed `sizes` on, with opt = {}
widthsFromSizes(szs) ==
    The({ IF red.thrown # NoError
          THEN [needWidths |-> <<>>, thrown |-> red.thrown, imgWidth |-> red.last.imgWidth,
                returns |-> FALSE, out |-> <<>>]
          ELSE The({ [needWidths |-> red.all, thrown |-> NoError,
                      imgWidth |-> red.last.imgWidth,
                      returns |-> res.returns, out |-> res.out] :
                         res \in {filterSizes(red.all, DefaultFactor, FALSE)} }) :
              red \in {ReduceDevices(szs, 1, <<>>, [imgWidth |-> Undefined])} })

\* before the call: the arguments are chosen, nothing is computed.  The calls of
\* deviceWidths either vary the rules (one density, no rotation) or the token
\* and the device; those of widthsFromSizes vary the rules, of which parseSizes
\* returns at least one.
ResolverIdle ==
    /\ \/ \E szs \in SelectionSizes, w \in Dims, h \in Dims :
             /\ sizes = szs
             /\ device = [w |-> w, h |-> h, dppx |-> <<Num(1)>>, flip |-> FALSE]
             /\ entry = "deviceWidths"
       \/ \E szs \in ScalingSizes, w \in Dims, h \in Dims, ds \in DppxLists, f \in BOOLEAN :
             /\ sizes = szs
             /\ device = [w |-> w, h |-> h, dppx |-> ds, flip |-> f]
             /\ entry = "deviceWidths"
       \/ \E szs \in SelectionSizes \ {<<>>} :
             /\ sizes = szs
             /\ device = Catalog[1]
             /\ entry = "widthsFromSizes"
    /\ imgWidth = Undefined
    /\ needWidths = <<>>
    /\ widths = <<>>
    /\ thrown = NoError
    /\ rpc = "idle"

\* a caller invokes deviceWidths(sizes, device)
CallDeviceWidths ==
    /\ rpc = "idle"
    /\ entry = "deviceWidths"
    /\ \E r \in {deviceWidths(sizes, device)} :
          /\ imgWidth' = r.imgWidth
          /\ needWidths' = r.needWidths
          /\ thrown' = r.thrown
          /\ rpc' = IF r.thrown = NoError THEN "returned" ELSE "threw"
    /\ UNCHANGED <<sizes, device, entry, widths>>
    /\ UNCHANGED fvars
    /\ UNCHANGED pvars

\* a caller invokes widthsFromSizes on a string that parseSizes turns into
\* `sizes`: every device of the catalog is resolved, the union is filtered
CallWidthsFromSizes ==
    /\ rpc = "idle"
    /\ entry = "widthsFromSizes"
    /\ \E r \in {widthsFromSizes(sizes)} :
          /\ imgWidth' = r.imgWidth
          /\ needWidths' = r.needWidths
          /\ thrown' = r.thrown
          /\ widths' = r.out
          /\ rpc' = IF r.thrown # NoError THEN "threw"
                    ELSE IF r.returns THEN "returned" ELSE "running"
    /\ UNCHANGED <<sizes, device, entry>>
    /\ UNCHANGED fvars
    /\ UNCHANGED pvars

InitResolve == ResolverIdle /\ FilterUnused /\ ParserUnused

NextResolve == CallDeviceWidths \/ CallWidthsFromSizes

SpecResolve == InitResolve /\ [][NextResolve]_vars

----------------------------------------------------------------------------
(* parseSizes *)

\* the character class \s; the strings of the model have the space only
IsSpace(c) == c = " "

RECURSIVE SkipSpaces(_, _)
\* the first index from k on that does not hold a space: the greedy \s* at k
SkipSpaces(s, k) ==
    IF k <= Len(s) /\ IsSpace(s[k]) THEN SkipSpaces(s, k + 1) ELSE k

\* the separator without its \s*: a comma at k
SeparatorAt_CommaOnly(s, k) ==
    IF s[k] = "," THEN k + 1 ELSE 0

\* /\s*,\s*/ matched at index k: the index after the match, 0 when it fails
SeparatorAt(s, k) ==
    The({ IF c <= Len(s) /\ s[c] = "," THEN SkipSpaces(s, c + 1) ELSE 0 :
              c \in {SkipSpaces(s, k)} })

\* the least element of a non-empty set of integers
Min(S) == CHOOSE x \in S : \A y \in S : x <= y

\* the leftmost index from p on at which the separator matches, Len(s) + 1 when
\* it matches nowhere
NextSeparator(s, p) ==
    Min({k \in p..Len(s) : SeparatorAt(s, k) # 0} \cup {Len(s) + 1})

RECURSIVE Split(_, _)
\* sizesQueryString.split(/\s*,\s*/), p being where the current substring starts
Split(s, p) ==
    The({ IF q > Len(s) THEN <<SubSeq(s, p, Len(s))>>
          ELSE <<SubSeq(s, p, q - 1)>> \o Split(s, SeparatorAt(s, q)) :
              q \in {NextSeparator(s, p)} })

RECURSIVE TrailingWord(_, _)
\* the number of characters of class \S at the end of the first k of descriptor
TrailingWord(descriptor, k) ==
    IF k = 0 \/ IsSpace(descriptor[k]) THEN 0 ELSE 1 + TrailingWord(descriptor, k - 1)

\* descriptor.match(/^(.*)\s+(\S+)$/): (\S+) is the last word, \s+ the one space
\* before it and the greedy (.*) all that precedes; null when the descriptor
\* ends with a space or holds no space before its last word
DescriptorMatch(descriptor) ==
    The({ IF n = 0 \/ n = Len(descriptor)
          THEN [null |-> TRUE, mediaCondition |-> <<>>, width |-> <<>>]
          ELSE [null |-> FALSE,
                mediaCondition |-> SubSeq(descriptor, 1, Len(descriptor) - n - 1),
                width |-> SubSeq(descriptor, Len(descriptor) - n + 1, Len(descriptor))] :
              n \in {TrailingWord(descriptor, Len(descriptor))} })

\* String.indexOf(c, from), 0-based, -1 when c does not occur from there on
IndexOf(s, c, from) ==
    The({ IF k = Len(s) THEN 0 - 1 ELSE k :
              k \in {Min({m \in from..(Len(s) - 1) : s[m + 1] = c} \cup {Len(s)})} })

\* the test before mediaCondition.slice(1, -1)
EnclosedInParens(mediaCondition) ==
    /\ Len(mediaCondition) >= 2
    /\ mediaCondition[1] = "("
    /\ mediaCondition[Len(mediaCondition)] = ")"
    /\ IndexOf(mediaCondition, "(", 1) > IndexOf(mediaCondition, ")", 0)

\* mediaCondition after the `if` that slices it
Sliced(mediaCondition) ==
    IF EnclosedInParens(mediaCondition)
    THEN SubSeq(mediaCondition, 2, Len(mediaCondition) - 1)
    ELSE mediaCondition

\* The tokenizer `mediaParser` (postcss-media-query-parser) is not part of the
\* repository.  It is modelled by what the tests of parseSizes and the loop
\* over its nodes show of it: the text is cut at the spaces outside
\* parentheses; a piece in parentheses is a media-feature-expression holding a
\* feature and a value around a colon, the piece `and` is a keyword, any other
\* piece is of another type.  It is taken to return for every text.

RECURSIVE NodeEnd(_, _, _)
\* the index at which the node holding s[q] ends, `level` being the depth of
\* parentheses after s[q]; 0 when the text ends inside parentheses
NodeEnd(s, q, level) ==
    IF level = 0 /\ (s[q] = ")" \/ q = Len(s) \/ IsSpace(s[q + 1])) THEN q
    ELSE IF q = Len(s) THEN 0
    ELSE NodeEnd(s, q + 1,
                 level + (IF s[q + 1] = "(" THEN 1 ELSE IF s[q + 1] = ")" THEN 0 - 1 ELSE 0))

RECURSIVE TrimEnd(_)
TrimEnd(s) ==
    IF s # <<>> /\ IsSpace(s[Len(s)]) THEN TrimEnd(SubSeq(s, 1, Len(s) - 1)) ELSE s

\* s without the spaces at its two ends
Trim(s) == TrimEnd(SubSeq(s, SkipSpaces(s, 1), Len(s)))

\* the node made of the text v
MediaNode(v) ==
    IF v = <<"a", "n", "d">>
    THEN [type |-> "keyword", value |-> v, mediaFeature |-> <<>>]
    ELSE IF v[1] = "(" /\ IndexOf(v, ":", 0) > 0
         THEN The({ [type |-> "media-feature-expression",
                     mediaFeature |-> Trim(SubSeq(v, 2, c)),
                     value |-> Trim(SubSeq(v, c + 2, Len(v) - 1))] :
                        c \in {IndexOf(v, ":", 0)} })
         ELSE [type |-> "media-type", value |-> v, mediaFeature |-> <<>>]

RECURSIVE MediaQueryNodes(_, _)
\* mediaParser(mediaCondition).nodes[0].nodes, from index k of the text on
MediaQueryNodes(s, k) ==
    The({ IF b > Len(s) THEN <<>>
          ELSE The({ IF e = 0 THEN <<>>
                     ELSE <<MediaNode(SubSeq(s, b, e))>> \o MediaQueryNodes(s, e + 1) :
                         e \in {NodeEnd(s, b, IF s[b] = "(" THEN 1 ELSE 0)} }) :
              b \in {SkipSpaces(s, k)} })

RECURSIVE PushConditions(_, _)
\* for (let node of parsed.nodes) from node k on: the conditions pushed
PushConditions(nodes, k) ==
    IF k > Len(nodes) THEN <<>>
    ELSE IF nodes[k].type = "media-feature-expression"
         THEN <<[mediaFeature |-> nodes[k].mediaFeature, value |-> nodes[k].value]>>
                  \o PushConditions(nodes, k + 1)
         ELSE IF nodes[k].type = "keyword" /\ nodes[k].value = <<"a", "n", "d">>
              THEN PushConditions(nodes, k + 1)
              ELSE <<>>

\* the callback of map: the Size made of one descriptor
ParseDescriptor(descriptor) ==
    The({ IF parsed.null THEN [conditions |-> <<>>, width |-> descriptor]
          ELSE IF parsed.mediaCondition = <<>>
               THEN [conditions |-> <<>>, width |-> parsed.width]
               ELSE [conditions |->
                         PushConditions(MediaQueryNodes(Sliced(parsed.mediaCondition), 1), 1),
                     width |-> parsed.width] :
              parsed \in {DescriptorMatch(descriptor)} })

\* parseSizes(sizesQueryString)
parseSizes(s) ==
    The({ [k \in 1..Len(descriptors) |-> ParseDescriptor(descriptors[k])] :
              descriptors \in {Split(s, 1)} })

\* the number of pieces a query string is made of, at most
MaxPieces == 5

\* the pieces of the query strings: two widths, the space, the comma, a
\* condition in parentheses and the keyword between two conditions
Pieces ==
    { <<"3", "p", "x">>, <<"1", "v", "w">>, <<" ">>, <<",">>,
      <<"(", "m", "i", "n", "-", "w", "i", "d", "t", "h", ":", " ", "5", "p", "x", ")">>,
      <<" ", "a", "n", "d", " ">> }

RECURSIVE QueryStrings(_)
\* the strings made of at most n pieces
QueryStrings(n) ==
    IF n = 0 THEN {<<>>}
    ELSE The({ shorter \cup {t \o piece : t \in shorter, piece \in Pieces} :
                   shorter \in {QueryStrings(n - 1)} })

\* before the call: the string is chosen, nothing is parsed
ParserIdle ==
    /\ sizesQueryString \in QueryStrings(MaxPieces)
    /\ parsedSizes = <<>>
    /\ ppc = "idle"

\* a caller invokes parseSizes(sizesQueryString)
CallParseSizes ==
    /\ ppc = "idle"
    /\ parsedSizes' = parseSizes(sizesQueryString)
    /\ ppc' = "returned"
    /\ UNCHANGED sizesQueryString
    /\ UNCHANGED rvars
    /\ UNCHANGED fvars

InitParse == ResolverUnused /\ FilterUnused /\ ParserIdle

NextParse == CallParseSizes

SpecParse == InitParse /\ [][NextParse]_vars

----------------------------------------------------------------------------
(* What the claims about the resolver say, stated on the arguments and the  *)
(* result of a call, without the operators that model the code              *)

\* the breakpoint literals of Conditions with the number each denotes
BreakLits == { [str |-> <<"5">>, n |-> 5, d |-> 1] }

\* condition c is written in px and holds for the device (boundaries included)
Holds(c, dev) ==
    \E l \in BreakLits :
        /\ c.value = l.str \o px
        /\ \/ c.mediaFeature = "min-width" /\ dev.w * l.d >= l.n
           \/ c.mediaFeature = "max-width" /\ dev.w * l.d <= l.n
           \/ c.mediaFeature = "min-height" /\ dev.h * l.d >= l.n
           \/ c.mediaFeature = "max-height" /\ dev.h * l.d <= l.n

AllHold(rule, dev) == \A k \in 1..Len(rule.conditions) : Holds(rule.conditions[k], dev)

\* rule k is the first rule of szs all of whose conditions hold
FirstMatch(szs, k, dev) ==
    /\ k \in 1..Len(szs)
    /\ AllHold(szs[k], dev)
    /\ \A m \in 1..(k - 1) : ~AllHold(szs[m], dev)

\* x is the least integer that is at least num / den
IsCeilOf(x, num, den) == x * den >= num /\ (x - 1) * den < num

\* x is the width that token resolves to on a device of width w at density dp:
\* the token is a literal in vw, in px or without unit
ResolvesTo(x, token, w, dp) ==
    \E l \in NumLits :
        \/ token = l.str \o vw /\ IsCeilOf(x, w * l.n * dp.n, 100 * l.d * dp.d)
        \/ token \in {l.str \o px, l.str} /\ IsCeilOf(x, l.n * dp.n, l.d * dp.d)

\* the token is a literal in vw, in px or without unit
Resolvable(token) == \E l \in NumLits : token \in {l.str \o vw, l.str \o px, l.str}

\* needWidths holds the widths of the token at the densities of the device, only
WidthsOf(token, w) ==
    /\ \A k \in 1..Len(device.dppx) :
          \E m \in 1..Len(needWidths) : ResolvesTo(needWidths[m], token, w, device.dppx[k])
    /\ \A m \in 1..Len(needWidths) :
          \E k \in 1..Len(device.dppx) : ResolvesTo(needWidths[m], token, w, device.dppx[k])

\* C1: when some rule's conditions all hold for the device and the call returns,
\* the width used is that of the first such rule in list order (min-* holds
\* from the value up, max-* up to the value, both included), never a later one.
C1_FirstMatchingRuleWins ==
    (entry = "deviceWidths" /\ rpc = "returned") =>
        \A k \in 1..Len(sizes) :
            FirstMatch(sizes, k, device) =>
                /\ imgWidth = sizes[k].width
                /\ Resolvable(sizes[k].width) => WidthsOf(sizes[k].width, device.w)

\* a call where two rules with different widths both match, the second with
\* more conditions, and the first one was used
C1_Witness ==
    /\ entry = "deviceWidths"
    /\ rpc = "returned"
    /\ Len(sizes) = 2
    /\ FirstMatch(sizes, 1, device)
    /\ AllHold(sizes[2], device)
    /\ Len(sizes[1].conditions) = 1
    /\ Len(sizes[2].conditions) = 1
    /\ sizes[1].conditions[1].mediaFeature = "max-width"
    /\ device.w = 5
    /\ sizes[1].width # sizes[2].width
    /\ imgWidth = sizes[1].width
    /\ WidthsOf(sizes[1].width, device.w)

\* there are rules, none unconditional, every condition in px, and all fail
AllRulesFail(szs, dev) ==
    szs # <<>> /\ \A k \in 1..Len(szs) :
        /\ szs[k].conditions # <<>>
        /\ \A m \in 1..Len(szs[k].conditions) :
              \E l \in BreakLits : szs[k].conditions[m].value = l.str \o px
        /\ ~AllHold(szs[k], dev)

\* C2 (as claimed): with no unconditional rule and every conditional rule
\* failing, the call resolves the implicit fallback 100vw, ceil(device.w * d)
\* for each density d, and never the width of a rule that failed.
C2_ImplicitFallback100vw ==
    (entry = "deviceWidths" /\ rpc # "idle" /\ AllRulesFail(sizes, device)) =>
        /\ rpc = "returned"
        /\ \A k \in 1..Len(device.dppx) :
              \E m \in 1..Len(needWidths) :
                  IsCeilOf(needWidths[m], device.w * device.dppx[k].n, device.dppx[k].d)
        /\ \A m \in 1..Len(needWidths) :
              \E k \in 1..Len(device.dppx) :
                  IsCeilOf(needWidths[m], device.w * device.dppx[k].n, device.dppx[k].d)

\* C3: for the selected rule, of magnitude m in vw, in px or without unit, the
\* width resolved at each density d is the least integer that is at least
\* effective * d, effective being device.w * m / 100 in vw and m otherwise.
C3_WidthIsCeiling ==
    (entry = "deviceWidths" /\ rpc = "returned") =>
        \A k \in 1..Len(sizes) :
            (FirstMatch(sizes, k, device) /\ Resolvable(sizes[k].width)) =>
                WidthsOf(sizes[k].width, device.w)

\* a call in vw at a density where the product is not an integer: 50vw of 5 at 1.5
C3_Witness ==
    /\ entry = "deviceWidths"
    /\ rpc = "returned"
    /\ Len(sizes) = 1
    /\ sizes[1].width = <<"5", "0">> \o vw
    /\ device.w = 5
    /\ device.dppx = <<[n |-> 3, d |-> 2], [n |-> 1, d |-> 1]>>
    /\ needWidths = <<4, 3>>

\* C4 (as claimed): the result has one entry for each element of the density
\* list, in the order of the list, also when two densities give the same width.
C4_OneEntryPerDensity ==
    (entry = "deviceWidths" /\ rpc = "returned") =>
        /\ Len(needWidths) = Len(device.dppx)
        /\ \A k \in 1..Len(sizes) :
              (FirstMatch(sizes, k, device) /\ Resolvable(sizes[k].width)) =>
                  \A m \in 1..Len(device.dppx) :
                      /\ m <= Len(needWidths)
                      /\ ResolvesTo(needWidths[m], sizes[k].width, device.w, device.dppx[m])

\* C5 (as claimed): for a device that can rotate, the rules are evaluated again
\* with w and h swapped and the widths of that variant follow those of the
\* natural orientation; without the flag only the natural orientation counts.
C5_RotatedVariantResolved ==
    (entry = "deviceWidths" /\ rpc = "returned") =>
        \A k \in 1..Len(sizes) :
            (sizes[k].conditions = <<>> /\ FirstMatch(sizes, k, device)
                /\ Resolvable(sizes[k].width)) =>
                IF device.flip
                THEN \A m \in 1..Len(device.dppx) :
                        \E x \in 1..Len(needWidths) :
                            ResolvesTo(needWidths[x], sizes[k].width, device.h, device.dppx[m])
                ELSE WidthsOf(sizes[k].width, device.w)

\* some condition of some rule has a value whose unit is not px
SomeConditionNotPx(szs, unit) ==
    \E k \in 1..Len(szs) : \E m \in 1..Len(szs[k].conditions) :
        \E l \in BreakLits : szs[k].conditions[m].value = l.str \o unit /\ unit # px

\* C6 (as claimed): if any condition of any rule has a unit other than px, the
\* whole call of widthsFromSizes, over every device, fails with an error naming
\* that unit and returns nothing, wherever the condition stands in the rule
\* list or in its rule.
C6_NonPxConditionAlwaysFails ==
    (entry = "widthsFromSizes" /\ rpc # "idle" /\ SomeConditionNotPx(sizes, em)) =>
        /\ rpc = "threw"
        /\ thrown = [kind |-> "Invalid query unit", unit |-> em]
        /\ widths = <<>>

\* C7 (as claimed): when the width token of the selected rule has a unit other
\* than px or vw, the call fails; the width is never resolved as if in px.
C7_OtherWidthUnitFails ==
    (entry = "deviceWidths" /\ rpc # "idle" /\ device.dppx # <<>>) =>
        \A k \in 1..Len(sizes) :
            (FirstMatch(sizes, k, device)
                /\ \E l \in NumLits : sizes[k].width \in {l.str \o em, l.str \o <<"%">>}) =>
                rpc = "threw"

----------------------------------------------------------------------------
(* What the claims about filterSizes say *)

\* how often x occurs in s
Count(x, s) == Cardinality({k \in 1..Len(s) : s[k] = x})

\* out holds the elements of l, each as often as l does
SameElements(out, l) ==
    /\ Len(out) = Len(l)
    /\ \A k \in 1..Len(l) : Count(l[k], out) = Count(l[k], l)

\* the size a candidate is ordered by: its value, or its area
Size(x) == IF isDims THEN x.w * x.h ELSE x

\* out is in descending order of size
Descending(out) == \A k \in 1..(Len(out) - 1) : Size(out[k]) >= Size(out[k + 1])

\* C8 (as claimed): with factor 1 the result is the whole list sorted
\* descending, with as many elements as the list, for every candidate list.
C8_FactorOneKeepsAll ==
    (fpc = "returned" /\ factor = Num(1)) =>
        SameElements(filtered, list) /\ Descending(filtered)

\* C9: filtering the result of filterSizes(L, f) again with the same factor
\* returns that result, element for element and in the same order.
C9_FilterIdempotent ==
    (fpc = "returned" /\ prev # <<>> /\ prev[1].again) => filtered = prev[1].out

\* a second pass over a result of two elements that the first pass got by
\* dropping one of three candidates
C9_Witness ==
    /\ fpc = "returned"
    /\ prev # <<>>
    /\ prev[1].again
    /\ Len(prev[1].list) = 3
    /\ Len(prev[1].out) = 2
    /\ list = prev[1].out
    /\ filtered = prev[1].out

\* C10: for factors f1 < f2 the result of filterSizes(L, f1) has at most as
\* many elements as the result of filterSizes(L, f2).
C10_MonotoneInFactor ==
    (fpc = "returned" /\ prev # <<>> /\ ~prev[1].again) =>
        /\ list = prev[1].list
        /\ FactorLess(prev[1].factor, factor)
        /\ Len(prev[1].out) <= Len(filtered)

\* the same three candidates: one kept with the smaller factor, all three
\* with the larger
C10_Witness ==
    /\ fpc = "returned"
    /\ prev # <<>>
    /\ ~prev[1].again
    /\ Len(list) = 3
    /\ Len(prev[1].out) = 1
    /\ Len(filtered) = 3

----------------------------------------------------------------------------
(* What the claim about parseSizes says, stated on the characters of the     *)
(* string                                                                    *)

\* the indices of the commas of s
Commas(s) == {k \in 1..Len(s) : s[k] = ","}

\* the index of the k-th comma of s; 0 for k = 0, Len(s) + 1 after the last
CommaAt(s, k) ==
    IF k = 0 THEN 0
    ELSE IF k > Cardinality(Commas(s)) THEN Len(s) + 1
    ELSE CHOOSE c \in Commas(s) : Cardinality({m \in Commas(s) : m < c}) = k - 1

\* t without its leading spaces, t without its trailing spaces
StripStart(t) ==
    SubSeq(t, Min({k \in 1..Len(t) : t[k] # " "} \cup {Len(t) + 1}), Len(t))

StripEnd(t) ==
    SubSeq(t, 1, 0 - Min({0 - k : k \in {m \in 1..Len(t) : t[m] # " "}} \cup {0}))

\* the k-th comma-separated segment of s: the text between two commas without
\* the spaces next to them
Segment(s, k) ==
    The({ The({ IF k <= Cardinality(Commas(s)) THEN StripEnd(t) ELSE t :
                    t \in {IF k > 1 THEN StripStart(chunk) ELSE chunk} }) :
              chunk \in {SubSeq(s, CommaAt(s, k - 1) + 1, CommaAt(s, k) - 1)} })

\* C11: parseSizes returns one rule for each comma-separated segment of the
\* string, in the order of the segments, and a segment without any whitespace
\* in it becomes the unconditional rule whose width is the segment; the call
\* returns.
C11_OneRulePerSegment ==
    /\ ppc # "idle" => ppc = "returned"
    /\ ppc = "returned" =>
          /\ Len(parsedSizes) = Cardinality(Commas(sizesQueryString)) + 1
          /\ \A k \in 1..Len(parsedSizes) :
                (\A m \in 1..Len(Segment(sizesQueryString, k)) :
                     Segment(sizesQueryString, k)[m] # " ") =>
                    parsedSizes[k] = [conditions |-> <<>>,
                                      width |-> Segment(sizesQueryString, k)]

\* a string of a conditional segment, a comma and a segment without
\* whitespace: two rules, the second the unconditional one
C11_Witness ==
    /\ ppc = "returned"
    /\ Cardinality(Commas(sizesQueryString)) = 1
    /\ Len(parsedSizes) = 2
    /\ Len(parsedSizes[1].conditions) = 1
    /\ parsedSizes[1].width = <<"3", "p", "x">>
    /\ parsedSizes[2] = [conditions |-> <<>>, width |-> <<"1", "v", "w">>]

----------------------------------------------------------------------------
(* What the further claims about filterSizes say *)

\* C12 (as claimed): filterSizes terminates on every list of non-negative
\* widths and on every list of dimensions, the empty list and the lists of one
\* element included: a call whose loop was entered returns.
C12_FilterTerminates == (fpc = "loop") ~> (fpc = "returned")

\* the width and the height that the scale of a candidate is taken of
Wd(x) == IF isDims THEN x.w ELSE x

Ht(x) == IF isDims THEN x.h ELSE x

\* the scale product of x against y, (x.w / y.w) * (x.h / y.h) or the ratio
\* squared, is below the factor; y is not zero
ScaleProductBelow(y, x) ==
    Wd(x) * Ht(x) * factor.d < factor.n * Wd(y) * Ht(y)

\* filtered[m] is the nearest kept element that precedes x in descending order
NearestKept(m, x) ==
    /\ Size(filtered[m]) >= Size(x)
    /\ \A n \in 1..Len(filtered) :
          Size(filtered[n]) >= Size(x) => Size(filtered[n]) >= Size(filtered[m])

\* C13 (as claimed): for a list that is not empty the result starts with the
\* maximum of the list, every two adjacent elements of it have a scale product
\* below the factor, and every element of the list that the result does not
\* hold has a scale product of at least the factor against the nearest kept
\* element before it: no element below the factor is dropped.
C13_KeepsBelowFactor ==
    (fpc = "returned" /\ list # <<>>) =>
        /\ filtered # <<>>
        /\ Count(filtered[1], list) > 0
        /\ \A k \in 1..Len(list) : Size(filtered[1]) >= Size(list[k])
        /\ \A k \in 1..(Len(filtered) - 1) :
              ScaleProductBelow(filtered[k], filtered[k + 1])
        /\ \A k \in 1..Len(list) :
              Count(list[k], filtered) = 0 =>
                  \E m \in 1..Len(filtered) :
                      /\ NearestKept(m, list[k])
                      /\ ~ScaleProductBelow(filtered[m], list[k])

============================================================================
